---------------------------- MODULE Spec2Model ----------------------------
(***************************************************************************)
(* A model of check_prices.py: the section/price extractor, the price diff *)
(* and the observation cycle of main().                                    *)
(*                                                                         *)
(* Text is a sequence of characters (one-character strings), so that the   *)
(* regular expressions and the string methods of the source are modelled   *)
(* by what they do to the characters.  A price is a whole number of        *)
(* hundredths (round(float(n), 2) of the source).                          *)
(***************************************************************************)
EXTENDS Integers, Sequences, FiniteSets, TLC

VARIABLES
    pc,             \* position of the running function
    s_raw,          \* normalize_section_name: the raw label
    s_once,         \* normalize_section_name(s_raw)
    s_twice,        \* normalize_section_name(s_once)
    old, new,       \* diff_prices: its two arguments
    fwd, bwd,       \* diff_prices(old, new) and diff_prices(new, old)
    body_text,      \* fetch_sections_prices: page.locator("body").inner_text()
    card_texts,     \* fetch_sections_prices: the texts of the cards
    html,           \* fetch_sections_prices: page.content()
    a, b,           \* fetch_sections_prices: the two extractions
    results,        \* fetch_sections_prices: the merged result
    calls,          \* history: the calls of parse_money_to_float, in order
    urls,           \* main: the lines of urls.txt
    prices_json,    \* the file STATE (prices.json): whether it exists, and its content
    prev_state,     \* main: load_state()
    new_state,      \* main: the state to save
    done,           \* main: how many urls of the list have been processed
    daily_reports,  \* main: one report per processed url
    old_sections,   \* main: the prior entry of the url being processed
    sections        \* main: what fetch_sections_prices returned for it

normVars  == <<s_raw, s_once, s_twice>>
diffVars  == <<old, new, fwd, bwd>>
fetchVars == <<body_text, card_texts, html, a, b, results, calls>>
mainVars  == <<urls, prices_json, prev_state, new_state, done, daily_reports,
              old_sections, sections>>
vars      == <<pc, normVars, diffVars, fetchVars, mainVars>>

\* the value of the variables of the functions that are not running
Idle == <<>>

NormIdle  == s_raw = Idle /\ s_once = Idle /\ s_twice = Idle
DiffIdle  == old = Idle /\ new = Idle /\ fwd = Idle /\ bwd = Idle
FetchIdle == /\ body_text = Idle /\ card_texts = Idle /\ html = Idle
             /\ a = Idle /\ b = Idle /\ results = Idle /\ calls = Idle
MainIdle  == /\ urls = Idle /\ prices_json = Idle /\ prev_state = Idle
             /\ new_state = Idle /\ done = 0 /\ daily_reports = Idle
             /\ old_sections = Idle /\ sections = Idle

\* Python's None where a price is expected (Optional[float]): no price is
\* negative, the money pattern has no sign
None == -1

----------------------------------------------------------------------------
(* Characters and strings *)

LowerCase == <<"a","b","c","d","e","f","g","h","i","j","k","l","m","n","o",
               "p","q","r","s","t","u","v","w","x","y","z","o_acute">>
UpperCase == <<"A","B","C","D","E","F","G","H","I","J","K","L","M","N","O",
               "P","Q","R","S","T","U","V","W","X","Y","Z","O_ACUTE">>
Digits    == <<"0","1","2","3","4","5","6","7","8","9">>

Range(f) == {f[i] : i \in DOMAIN f}

\* \s of the regular expressions, str.strip() and the test of a blank line
IsSpace(c) == c \in {" ", "\t", "\n"}

IsDigit(c) == c \in Range(Digits)

\* str.upper() on one character
UpperChar(c) ==
    IF c \in Range(LowerCase)
        THEN UpperCase[CHOOSE i \in DOMAIN LowerCase : LowerCase[i] = c]
        ELSE c

\* str.upper()
Upper(s) == [i \in DOMAIN s |-> UpperChar(s[i])]

\* the part of s from position i (1-based) to its end
From(s, i) == SubSeq(s, i, Len(s))

\* s starts, at position i, with the word w, letter case ignored
StartsWithAt(s, i, w) ==
    /\ i + Len(w) - 1 <= Len(s)
    /\ \A k \in 1..Len(w) : UpperChar(s[i + k - 1]) = UpperChar(w[k])

\* the first position >= i of s that holds no whitespace (Len(s)+1 if none)
RECURSIVE SkipSpace(_, _)
SkipSpace(s, i) ==
    IF i <= Len(s) /\ IsSpace(s[i]) THEN SkipSpace(s, i + 1) ELSE i

\* str.strip()
RECURSIVE RStrip(_)
RStrip(s) ==
    IF s # <<>> /\ IsSpace(s[Len(s)]) THEN RStrip(SubSeq(s, 1, Len(s) - 1)) ELSE s

Strip(s) == RStrip(From(s, SkipSpace(s, 1)))

\* re.sub(r"\s+", " ", s)
RECURSIVE CollapseSpace(_)
CollapseSpace(s) ==
    IF s = <<>> THEN <<>>
    ELSE IF IsSpace(s[1]) THEN <<" ">> \o CollapseSpace(From(s, SkipSpace(s, 1)))
    ELSE <<s[1]>> \o CollapseSpace(Tail(s))

Section == <<"S","e","c","t","i","o","n">>

\* re.sub(r"^\s*Section\s+", "", s, flags=re.IGNORECASE): the pattern is
\* anchored at the start, so it is removed at most once
StripSection(s) ==
    LET i == SkipSpace(s, 1)
        j == i + Len(Section)
    IN IF StartsWithAt(s, i, Section) /\ j <= Len(s) /\ IsSpace(s[j])
           THEN From(s, SkipSpace(s, j))
           ELSE s

normalize_section_name(s) == Upper(Strip(CollapseSpace(StripSection(s))))

\* dict.get(k): None for a key the dict does not hold
Get(d, k) == IF k \in DOMAIN d THEN d[k] ELSE None

\* the dict d with d[k] = v
Put(d, k, v) == [x \in DOMAIN d \cup {k} |-> IF x = k THEN v ELSE d[x]]

\* the concatenation of the strings of a sequence
RECURSIVE Concat(_)
Concat(ss) == IF ss = <<>> THEN <<>> ELSE Head(ss) \o Concat(Tail(ss))

\* the sequences of at most n elements of S
SeqsUpTo(S, n) == UNION {[1..k -> S] : k \in 0..n}

----------------------------------------------------------------------------
(* The money pattern and parse_money_to_float *)

\* re.search found nothing (a match is never empty)
NoMatch == <<>>

\* how many of the characters of s from position i on are digits, up to max
RECURSIVE DigitRun(_, _, _)
DigitRun(s, i, max) ==
    IF max > 0 /\ i <= Len(s) /\ IsDigit(s[i]) THEN 1 + DigitRun(s, i + 1, max - 1)
    ELSE 0

IsSeparator(c) == c \in {".", ","}

\* MONEY = (?:MXN|MX\$|\$)\s?\d{1,3}(?:[.,]\d{3})*(?:[.,]\d{2})? matched at
\* position p of s, letter case ignored: the position after the match, or 0.
\* Every part after the first digits is optional, so the greedy match is the
\* match.

\* (?:MXN|MX\$|\$): how many characters it takes at position p, or 0
PrefixLen(s, p) ==
    IF StartsWithAt(s, p, <<"M","X","N">>) THEN 3
    ELSE IF StartsWithAt(s, p, <<"M","X","$">>) THEN 3
    ELSE IF StartsWithAt(s, p, <<"$">>) THEN 1
    ELSE 0

\* \s? before a digit: the position of the first digit
AfterSpace(s, q) ==
    IF q <= Len(s) /\ IsSpace(s[q]) /\ DigitRun(s, q + 1, 1) = 1 THEN q + 1 ELSE q

\* (?:[.,]\d{3})* from position i: the position after the groups
RECURSIVE Groups(_, _)
Groups(s, i) ==
    IF i <= Len(s) /\ IsSeparator(s[i]) /\ DigitRun(s, i + 1, 3) = 3
        THEN Groups(s, i + 4) ELSE i

\* (?:[.,]\d{2})? at position g: the position after it
AfterCents(s, g) ==
    IF g <= Len(s) /\ IsSeparator(s[g]) /\ DigitRun(s, g + 1, 2) = 2 THEN g + 3 ELSE g

\* \d{1,3}(?:[.,]\d{3})*(?:[.,]\d{2})? at position q
NumberEndAt(s, q) ==
    IF DigitRun(s, q, 1) = 0 THEN 0
    ELSE AfterCents(s, Groups(s, q + DigitRun(s, q, 3)))

AfterPrefix(s, p, plen) ==
    IF plen = 0 THEN 0 ELSE NumberEndAt(s, AfterSpace(s, p + plen))

MoneyEndAt(s, p) == AfterPrefix(s, p, PrefixLen(s, p))

\* re.search(MONEY, s, flags=re.IGNORECASE): group(0) of the leftmost match
RECURSIVE FindMoneyFrom(_, _)
MoneyOrNext(s, p, e) ==
    IF e # 0 THEN SubSeq(s, p, e - 1) ELSE FindMoneyFrom(s, p + 1)

FindMoneyFrom(s, p) ==
    IF p > Len(s) THEN NoMatch ELSE MoneyOrNext(s, p, MoneyEndAt(s, p))

FindMoney(s) == FindMoneyFrom(s, 1)

DigitValue(c) == (CHOOSE i \in DOMAIN Digits : Digits[i] = c) - 1

\* the number a string of digits writes
RECURSIVE Number(_)
Number(ds) ==
    IF ds = <<>> THEN 0 ELSE 10 * Number(SubSeq(ds, 1, Len(ds) - 1)) + DigitValue(ds[Len(ds)])

\* re.sub(r"[^\d.,]", "", s)
RECURSIVE OnlyNumeric(_)
OnlyNumeric(s) ==
    IF s = <<>> THEN <<>>
    ELSE (IF IsDigit(s[1]) \/ IsSeparator(s[1]) THEN <<s[1]>> ELSE <<>>)
             \o OnlyNumeric(Tail(s))

\* str.replace(",", "")
RECURSIVE DropCommas(_)
DropCommas(s) ==
    IF s = <<>> THEN <<>>
    ELSE (IF s[1] # "," THEN <<s[1]>> ELSE <<>>) \o DropCommas(Tail(s))

\* round(x, 2) in hundredths, of the first two decimals `two`, the third d3
\* and the rest `tail`: one more when what is cut is above a half; exactly a
\* half goes to the even neighbour, as round() does with a value the float
\* holds exactly
RoundUp(two, d3, tail) ==
    IF d3 > 5 \/ (d3 = 5 /\ tail > 0) \/ (d3 = 5 /\ tail = 0 /\ two % 2 = 1)
        THEN two + 1 ELSE two

\* the decimals ds after the point, in hundredths
RoundedDecimals(ds) ==
    RoundUp(Number(SubSeq(ds \o <<"0", "0">>, 1, 2)),
            DigitValue((ds \o <<"0", "0", "0">>)[3]),
            Number(SubSeq(ds, 4, Len(ds))))

\* round(float(n), 2) of digits with at most one point at position dot
\* (Len(n) + 1 without a point)
FloatOf(n, dot) ==
    100 * Number(SubSeq(n, 1, dot - 1)) + RoundedDecimals(SubSeq(n, dot + 1, Len(n)))

\* float(n) of digits and points: it takes at most one point and at least one
\* digit, anything else raises and gives None
ParseFloat(n, points) ==
    IF Cardinality(points) > 1 \/ Len(n) - Cardinality(points) = 0 THEN None
    ELSE IF points = {} THEN FloatOf(n, Len(n) + 1)
    ELSE FloatOf(n, CHOOSE i \in points : TRUE)

PointsOf(n) == {i \in DOMAIN n : n[i] = "."}

Numeric(s) == DropCommas(OnlyNumeric(s))

\* parse_money_to_float: the digits and points of s, the commas dropped
parse_money_to_float(s) == ParseFloat(Numeric(s), PointsOf(Numeric(s)))

----------------------------------------------------------------------------
(* extract_from_text_blocks *)

\* str.splitlines(), for the line break "\n"
RECURSIVE SplitLines(_)
SplitLines(s) ==
    LET breaks == {i \in DOMAIN s : s[i] = "\n"}
        first  == CHOOSE i \in breaks : \A k \in breaks : i <= k
    IN IF s = <<>> THEN <<>>
       ELSE IF breaks = {} THEN <<s>>
       ELSE <<SubSeq(s, 1, first - 1)>> \o SplitLines(From(s, first + 1))

\* lines = [ln.strip() for ln in text.splitlines() if ln.strip()]
RECURSIVE StripLines(_)
StripLines(ls) ==
    IF ls = <<>> THEN <<>>
    ELSE (IF Strip(Head(ls)) # <<>> THEN <<Strip(Head(ls))>> ELSE <<>>)
             \o StripLines(Tail(ls))

Lines(text) == StripLines(SplitLines(text))

\* norm = [re.sub(r"\s+", " ", ln).upper() for ln in lines]
Norm(lines) == [i \in DOMAIN lines |-> Upper(CollapseSpace(lines[i]))]

\* [A-Z0-9ÁÉÍÓÚÜÑ\-/ ], letter case ignored
InLabelClass(c) ==
    \/ UpperChar(c) \in Range(UpperCase)
    \/ IsDigit(c)
    \/ c \in {"-", "/", " "}

MaxLabel == 40

\* re.match(r"^(SECTION|SECCIÓN)\s+([A-Z0-9ÁÉÍÓÚÜÑ\-/ ]{1,40})$", ln): group(2),
\* or NoMatch.  ln is a stripped line, so what follows the whitespace is not
\* empty and \s+ gives nothing back.
ExplicitLabel(ln) ==
    LET r == SkipSpace(ln, 8)
    IN IF /\ \/ StartsWithAt(ln, 1, <<"S","E","C","T","I","O","N">>)
              \/ StartsWithAt(ln, 1, <<"S","E","C","C","I","O_ACUTE","N">>)
          /\ Len(ln) >= 8 /\ IsSpace(ln[8])
          /\ r <= Len(ln) /\ Len(ln) - r + 1 <= MaxLabel
          /\ \A k \in r..Len(ln) : InLabelClass(ln[k])
           THEN From(ln, r)
           ELSE NoMatch

\* the first words of SECTION_PREFIXES
SECTION_PREFIXES ==
    { <<"G","E","N","E","R","A","L">>, <<"G","R","A","D","A">>, <<"V","I","P">>,
      <<"P","L","A","T","E","A">>, <<"P","R","E","F","E","R","E","N","T","E">>,
      <<"C","A","N","C","H","A">>, <<"P","A","L","C","O">>,
      <<"B","U","T","A","C","A">> }

\* \w
IsWordChar(c) ==
    c \in Range(LowerCase) \cup Range(UpperCase) \cup Range(Digits) \cup {"_"}

\* sec_regex.search(ln): ln starts with a prefix that ends at a word boundary.
\* The optional second word of GENERAL and GRADA starts with whitespace, so
\* with or without it the first word must end at a boundary.
IsImplicit(ln) ==
    \E w \in SECTION_PREFIXES :
        /\ StartsWithAt(ln, 1, w)
        /\ Len(ln) > Len(w) => ~IsWordChar(ln[Len(w) + 1])

\* one call of parse_money_to_float, as the extractor makes it: by which pass,
\* for the label at which line (or node), on the token of which line, for
\* which key, with which result
Call(pass, at, from, key, tok) ==
    [pass |-> pass, at |-> at, from |-> from, key |-> key, tok |-> tok,
     val |-> parse_money_to_float(tok)]

\* a slip: range(1, 6)
LookaheadFive == 4 + 1

\* for j in range(1, 5)
LOOKAHEAD == 4

\* the loop over the next lines: the price of the first of them whose first
\* money token parses, with the calls of parse_money_to_float made
RECURSIVE Look(_, _, _, _, _, _)

\* price_val = parse_money_to_float(mp.group(0)); if it is not None: break
LookParsed(lines, i, pass, key, j, made, c) ==
    IF c.val # None THEN [price_val |-> c.val, calls |-> Append(made, c)]
    ELSE Look(lines, i, pass, key, j + 1, Append(made, c))

\* mp = re.search(MONEY, lines[i + j]); if mp: ...
LookToken(lines, i, pass, key, j, made, mp) ==
    IF mp = NoMatch THEN Look(lines, i, pass, key, j + 1, made)
    ELSE LookParsed(lines, i, pass, key, j, made, Call(pass, i, i + j, key, mp))

Look(lines, i, pass, key, j, made) ==
    IF j > LOOKAHEAD \/ i + j > Len(lines) THEN [price_val |-> None, calls |-> made]
    ELSE LookToken(lines, i, pass, key, j, made, FindMoney(lines[i + j]))

Lookahead(lines, i, pass, key) == Look(lines, i, pass, key, 1, <<>>)

\* a slip: the last price wins
KeepLast(res, sec, price_val) == Put(res, sec, price_val)

\* if sec not in results or price_val < results[sec]: results[sec] = price_val
Keep(res, sec, price_val) ==
    IF sec \notin DOMAIN res \/ price_val < res[sec]
        THEN Put(res, sec, price_val)
        ELSE res

\* a slip: a label without a price is kept with the price 0
RecordZero(res, sec, price_val) ==
    IF price_val # None THEN Keep(res, sec, price_val) ELSE Keep(res, sec, 0)

\* if price_val is not None: keep it
Record(res, sec, price_val) ==
    IF price_val # None THEN Keep(res, sec, price_val) ELSE res

EmptyDict == [k \in {} |-> None]

\* the first loop of extract_from_text_blocks, from line i on, with the
\* results and the calls so far
RECURSIVE ExplicitLoop(_, _, _, _)

\* if price_val is not None: ... results[sec] = price_val
ExplicitRecord(lines, norm, i, st, sec, look) ==
    ExplicitLoop(lines, norm, i + 1,
                 [results |-> Record(st.results, sec, look.price_val),
                  calls   |-> st.calls \o look.calls])

ExplicitFound(lines, norm, i, st, sec) ==
    ExplicitRecord(lines, norm, i, st, sec, Lookahead(lines, i, "explicit", sec))

ExplicitLine(lines, norm, i, st, msec) ==
    IF msec = NoMatch THEN ExplicitLoop(lines, norm, i + 1, st)
    ELSE ExplicitFound(lines, norm, i, st, normalize_section_name(Strip(msec)))

ExplicitLoop(lines, norm, i, st) ==
    IF i > Len(lines) THEN st
    ELSE ExplicitLine(lines, norm, i, st, ExplicitLabel(norm[i]))

ExplicitPass(lines, st) == ExplicitLoop(lines, Norm(lines), 1, st)

\* the second loop of extract_from_text_blocks
RECURSIVE ImplicitLoop(_, _, _, _)

ImplicitRecord(lines, norm, i, st, sec, same, look) ==
    ImplicitLoop(lines, norm, i + 1,
                 [results |-> Record(st.results, sec, look.price_val),
                  calls   |-> st.calls \o same \o look.calls])

\* if price_val is None: the next lines
ImplicitParsed(lines, norm, i, st, sec, c0) ==
    IF c0.val # None
        THEN ImplicitRecord(lines, norm, i, st, sec, <<c0>>,
                            [price_val |-> c0.val, calls |-> <<>>])
        ELSE ImplicitRecord(lines, norm, i, st, sec, <<c0>>,
                            Lookahead(lines, i, "implicit", sec))

\* mp0 = re.search(MONEY, lines[i]); if mp0: price_val = parse_money_to_float(...)
ImplicitSame(lines, norm, i, st, sec, mp0) ==
    IF mp0 = NoMatch
        THEN ImplicitRecord(lines, norm, i, st, sec, <<>>,
                            Lookahead(lines, i, "implicit", sec))
        ELSE ImplicitParsed(lines, norm, i, st, sec, Call("implicit", i, i, sec, mp0))

ImplicitLoop(lines, norm, i, st) ==
    IF i > Len(lines) THEN st
    ELSE IF ~IsImplicit(norm[i]) THEN ImplicitLoop(lines, norm, i + 1, st)
    ELSE ImplicitSame(lines, norm, i, st, normalize_section_name(lines[i]),
                      FindMoney(lines[i]))

ImplicitPass(lines, st) == ImplicitLoop(lines, Norm(lines), 1, st)

----------------------------------------------------------------------------
(* extract_from_html *)

IsSectionWord(s, i) ==
    \/ StartsWithAt(s, i, Section)
    \/ StartsWithAt(s, i, <<"S","e","c","c","i","o_acute","n">>)

\* how many of the characters of s from position i on are label characters,
\* up to max
RECURSIVE LabelRun(_, _, _)
LabelRun(s, i, max) ==
    IF max > 0 /\ i <= Len(s) /\ InLabelClass(s[i]) THEN 1 + LabelRun(s, i + 1, max - 1)
    ELSE 0

\* (Section|Sección)\s+([A-Za-zÁÉÍÓÚÜÑ0-9\-/ ]{1,40}) matched at position i of
\* s: group(2), or NoMatch.  \s+ takes all the whitespace it can and gives
\* back what the label needs: a label may start with the last blanks.

\* the label that starts at position j
LabelFrom(s, j) == SubSeq(s, j, j + LabelRun(s, j, MaxLabel) - 1)

\* starts: the positions after some of the whitespace where a label can start
LabelAmong(s, starts) ==
    IF starts = {} THEN NoMatch
    ELSE LabelFrom(s, CHOOSE x \in starts : \A y \in starts : y <= x)

LabelAt(s, i) ==
    IF ~IsSectionWord(s, i) THEN NoMatch
    ELSE LabelAmong(s, {j \in (i + 8)..SkipSpace(s, i + 7) : LabelRun(s, j, 1) = 1})

\* re.search(r"(?i)(Section|Sección)\s+(...)", chunk): group(2) of the
\* leftmost match
RECURSIVE FindLabelFrom(_, _)
LabelOrNext(chunk, i, label) ==
    IF label # NoMatch THEN label ELSE FindLabelFrom(chunk, i + 1)

FindLabelFrom(chunk, i) ==
    IF i > Len(chunk) THEN NoMatch ELSE LabelOrNext(chunk, i, LabelAt(chunk, i))

\* \b(Section|Sección)\s+... somewhere in h[lo..hi], the text of a node (no
\* part of the pattern matches "<", so a match from there stays in the node)
HasBoundedLabel(h, lo, hi) ==
    \E i \in lo..hi : LabelAt(h, i) # NoMatch /\ ~IsWordChar(h[i - 1])

\* the first "<" after p, or 0
FirstClose(h, closes) ==
    IF closes = {} THEN 0 ELSE CHOOSE x \in closes : \A y \in closes : x <= y

\* re.finditer(r">([^<]*\b(Section|Sección)\s+...{1,40}[^<]*)<", html): the
\* matches from position p on, each as the positions of its ">" and its "<"
RECURSIVE NodeMatches(_, _)
NodeOrNext(h, p, e) ==
    IF h[p] = ">" /\ e # 0 /\ HasBoundedLabel(h, p + 1, e - 1)
        THEN <<[start |-> p, end |-> e]>> \o NodeMatches(h, e + 1)
        ELSE NodeMatches(h, p + 1)

NodeMatches(h, p) ==
    IF p > Len(h) THEN <<>>
    ELSE NodeOrNext(h, p, FirstClose(h, {e \in (p + 1)..Len(h) : h[e] = "<"}))

WINDOW == 400

Min(x, y) == IF x <= y THEN x ELSE y

\* the loop of extract_from_html over the matches ms, with the results and
\* the calls of parse_money_to_float so far
RECURSIVE HtmlLoop(_, _, _, _)

\* price_val = parse_money_to_float(mp.group(0)); if it is None: continue
HtmlRecord(h, ms, n, st, c) ==
    HtmlLoop(h, ms, n + 1,
             [results |-> Record(st.results, c.key, c.val),
              calls   |-> Append(st.calls, c)])

\* if not msec: continue ... if not mp: continue
HtmlNode(h, ms, n, st, msec, mp) ==
    IF msec = NoMatch \/ mp = NoMatch THEN HtmlLoop(h, ms, n + 1, st)
    ELSE HtmlRecord(h, ms, n, st,
                    Call("html", ms[n].start, ms[n].start,
                         normalize_section_name(msec), mp))

\* chunk = m.group(1); window = html[m.start(): m.end() + 400]
HtmlLoop(h, ms, n, st) ==
    IF n > Len(ms) THEN st
    ELSE HtmlNode(h, ms, n, st,
                  FindLabelFrom(SubSeq(h, ms[n].start + 1, ms[n].end - 1), 1),
                  FindMoney(SubSeq(h, ms[n].start, Min(Len(h), ms[n].end + WINDOW))))

extract_from_html(h) ==
    HtmlLoop(h, NodeMatches(h, 1), 1, [results |-> EmptyDict, calls |-> <<>>])

----------------------------------------------------------------------------
(* The combined parse of fetch_sections_prices *)

\* sep.join(ss)
RECURSIVE Join(_, _)
Join(sep, ss) ==
    IF ss = <<>> THEN <<>>
    ELSE IF Len(ss) = 1 THEN ss[1]
    ELSE ss[1] \o sep \o Join(sep, Tail(ss))

\* body_text + "\n\n" + "\n\n".join(card_texts)
VisibleText == body_text \o <<"\n", "\n">> \o Join(<<"\n", "\n">>, card_texts)

\* for k, v in b.items(): if k not in results or v < results[k]: results[k] = v
MergeHtml(res, found) ==
    LET RECURSIVE Loop(_, _)
        Loop(ks, r) ==
            IF ks = {} THEN r
            ELSE LET k == CHOOSE x \in ks : TRUE
                 IN Loop(ks \ {k}, Keep(r, k, found[k]))
    IN Loop(DOMAIN found, res)

\* dict.update(e)
Update(d, e) == [k \in DOMAIN d \cup DOMAIN e |-> IF k \in DOMAIN e THEN e[k] ELSE d[k]]

TextExplicit ==
    /\ pc = "fetched"
    /\ LET r == ExplicitPass(Lines(VisibleText), [results |-> EmptyDict, calls |-> <<>>])
       IN a' = r.results /\ calls' = r.calls
    /\ pc' = "explicit"
    /\ UNCHANGED <<body_text, card_texts, html, b, results, normVars, diffVars, mainVars>>

TextImplicit ==
    /\ pc = "explicit"
    /\ LET r == ImplicitPass(Lines(VisibleText), [results |-> a, calls |-> calls])
       IN a' = r.results /\ calls' = r.calls
    /\ pc' = "text"
    /\ UNCHANGED <<body_text, card_texts, html, b, results, normVars, diffVars, mainVars>>

UpdateFromText ==
    /\ pc = "text"
    /\ results' = Update(results, a)
    /\ pc' = "updated"
    /\ UNCHANGED <<body_text, card_texts, html, a, b, calls, normVars, diffVars, mainVars>>

HtmlExtract ==
    /\ pc = "updated"
    /\ LET r == extract_from_html(html)
       IN b' = r.results /\ calls' = calls \o r.calls
    /\ pc' = "html"
    /\ UNCHANGED <<body_text, card_texts, html, a, results, normVars, diffVars, mainVars>>

HtmlMerge ==
    /\ pc = "html"
    /\ results' = MergeHtml(results, b)
    /\ pc' = "merged"
    /\ UNCHANGED <<body_text, card_texts, html, a, b, calls, normVars, diffVars, mainVars>>

NextFetch == TextExplicit \/ TextImplicit \/ UpdateFromText \/ HtmlExtract \/ HtmlMerge

\* the lines a page's visible text is made of
\*   'Section vip'
\*   'SECCIÓN  Vip'
\*   'VIP'
\*   'VIP $2'
\*   '$3'
\*   'MXN 1,250.00'
\*   '$1.000.00'
BodyLines ==
    { <<"S","e","c","t","i","o","n"," ","v","i","p">>,
      <<"S","E","C","C","I","O_ACUTE","N"," "," ","V","i","p">>,
      <<"V","I","P">>,
      <<"V","I","P"," ","$","2">>,
      <<"$","3">>,
      <<"M","X","N"," ","1",",","2","5","0",".","0","0">>,
      <<"$","1",".","0","0","0",".","0","0">> }

MaxBodyLines == 2

\* the texts of at most n lines of L
Texts(L, n) == { Join(<<"\n">>, ls) : ls \in SeqsUpTo(L, n) }

\* the text of a card
\*   'Section vip\n$1'
CardTexts ==
    { <<"S","e","c","t","i","o","n"," ","v","i","p","\n","$","1">> }

\* the markup of a page
\*   ''
\*   '<li>Section VIP</li><b>$2</b>'
\*   '<p>x</p><li>Sección vip <i>$9.000.00</i></li><b>$1</b>'
\*   '<li>Section  a/b</li><li>Section vip: MX$ 4.50</li>'
HtmlDocs ==
    { <<>>,
      <<"<","l","i",">","S","e","c","t","i","o","n"," ","V","I","P","<","/","l","i",">","<","b",">","$","2","<","/","b",">">>,
      <<"<","p",">","x","<","/","p",">","<","l","i",">","S","e","c","c","i","o_acute","n"," ","v","i","p"," ","<","i",">","$","9",".","0","0","0",".","0","0","<","/","i",">","<","/","l","i",">","<","b",">","$","1","<","/","b",">">>,
      <<"<","l","i",">","S","e","c","t","i","o","n"," "," ","a","/","b","<","/","l","i",">","<","l","i",">","S","e","c","t","i","o","n"," ","v","i","p",":"," ","M","X","$"," ","4",".","5","0","<","/","l","i",">">> }

InitFetch ==
    /\ pc = "fetched"
    /\ body_text \in Texts(BodyLines, MaxBodyLines)
    /\ card_texts \in SeqsUpTo(CardTexts, 1)
    /\ html \in HtmlDocs
    /\ a = EmptyDict /\ b = EmptyDict /\ results = EmptyDict /\ calls = <<>>
    /\ NormIdle /\ DiffIdle /\ MainIdle

SpecFetch == InitFetch /\ [][NextFetch]_vars

\* the pieces of a long text: a label, a blank line and a line without a
\* price, a line with a price, a line whose first money token does not parse
\*   'Section vip'
\*   '\t\nZona A'
\*   'Desde $2.50'
\*   '$1.000.00 $1'
TextPieces ==
    { <<"S","e","c","t","i","o","n"," ","v","i","p">>,
      <<"\t","\n","Z","o","n","a"," ","A">>,
      <<"D","e","s","d","e"," ","$","2",".","5","0">>,
      <<"$","1",".","0","0","0",".","0","0"," ","$","1">> }

MaxFollowing == 5

\* a text that starts with a label, and what follows it
InitText ==
    /\ pc = "fetched"
    /\ body_text \in { Join(<<"\n">>, <<<<"S","e","c","t","i","o","n"," ","v","i","p">>>> \o ls) : ls \in SeqsUpTo(TextPieces, MaxFollowing) }
    /\ card_texts = <<>>
    /\ html = <<>>
    /\ a = EmptyDict /\ b = EmptyDict /\ results = EmptyDict /\ calls = <<>>
    /\ NormIdle /\ DiffIdle /\ MainIdle

SpecText == InitText /\ [][NextFetch]_vars

\* the successful calls of parse_money_to_float for the key k
Parsed(k) == {i \in DOMAIN calls : calls[i].key = k /\ calls[i].val # None}

\* the least element of a non-empty set of numbers
Least(S) == CHOOSE x \in S : \A y \in S : x <= y

\* the keys the extraction has met
KeysSeen == {calls[i].key : i \in DOMAIN calls} \cup DOMAIN results \cup DOMAIN a \cup DOMAIN b

\* the prices the calls of the set I of positions of `calls` gave
Offered(I) == {calls[i].val : i \in I}

\* the successful calls the text passes made for the key k
ParsedText(k) == {i \in Parsed(k) : calls[i].pass \in {"explicit", "implicit"}}

\* C3: whatever the order of the (key, price) observations of the explicit
\* pass, the implicit pass and the markup pass, the price stored for a key is
\* the least of the prices offered for it: in the text's result once the text
\* passes are over, in the merged result at the end.
C3_MinMerge ==
    /\ pc \in {"text", "updated", "html", "merged"} =>
           \A k \in KeysSeen :
               ParsedText(k) # {} => k \in DOMAIN a /\ a[k] = Least(Offered(ParsedText(k)))
    /\ pc = "merged" =>
           \A k \in KeysSeen :
               Parsed(k) # {} => k \in DOMAIN results /\ results[k] = Least(Offered(Parsed(k)))

\* a key for which the text offered a lower price before the markup offered a
\* higher one
C3_Witness ==
    /\ pc = "merged"
    /\ \E i, j \in DOMAIN calls :
           /\ i < j /\ calls[i].key = calls[j].key
           /\ calls[i].pass = "explicit" /\ calls[j].pass = "html"
           /\ calls[i].val # None /\ calls[j].val # None
           /\ calls[i].val < calls[j].val

\* C4: after the extraction a key is in the section-price map if and only if
\* a parse attempted for it succeeded, and its price is the result of such a
\* parse: a failed parse inserts nothing, neither None nor zero.
C4_NoPlaceholder ==
    pc = "merged" =>
        \A k \in KeysSeen :
            /\ k \in DOMAIN results <=> Parsed(k) # {}
            /\ k \in DOMAIN results => results[k] \in Offered(Parsed(k))

\* a key all of whose parses failed, beside a key that has a price
C4_Witness ==
    /\ pc = "merged"
    /\ results # EmptyDict
    /\ \E i \in DOMAIN calls : calls[i].val = None /\ calls[i].key \notin DOMAIN results

\* the section label of the explicit pass the line l is, or NoMatch
LabelOf(l) == ExplicitLabel(Upper(CollapseSpace(l)))

\* the lines of the text that are a section label of the explicit pass
Headers(ls) == {i \in DOMAIN ls : LabelOf(ls[i]) # NoMatch}

\* the key of the label at line i
HeaderKey(ls, i) == normalize_section_name(Strip(LabelOf(ls[i])))

\* the first money token of every line
Tokens(ls) == [i \in DOMAIN ls |-> FindMoney(ls[i])]

\* what parse_money_to_float makes of them
Prices(toks) ==
    [i \in DOMAIN toks |-> IF toks[i] = NoMatch THEN None ELSE parse_money_to_float(toks[i])]

\* among the four lines after line i, those that hold a money token
WithToken(toks, i) == {j \in 1..4 : i + j <= Len(toks) /\ toks[i + j] # NoMatch}

\* and those whose first money token parses
WithPrice(prices, i) == {j \in 1..4 : i + j <= Len(prices) /\ prices[i + j] # None}

\* the price of the label at line i: that of the first of the four lines after
\* it whose first money token parses, None without such a line
PriceAfter(prices, i) ==
    IF WithPrice(prices, i) = {} THEN None ELSE prices[i + Least(WithPrice(prices, i))]

\* the calls of parse_money_to_float the explicit pass made for the label at
\* line i, and those that gave a price
CallsAt(i) == {c \in DOMAIN calls : calls[c].pass = "explicit" /\ calls[c].at = i}
PricedAt(i) == {c \in CallsAt(i) : calls[c].val # None}

\* the labels of the key k that have a price
PricedHeaders(ls, prices, k) ==
    {i \in Headers(ls) : PriceAfter(prices, i) # None /\ HeaderKey(ls, i) = k}

\* the explicit pass on the lines ls, whose first money tokens are toks and
\* their prices `prices`, is as C9 (amended) says
BoundedLookahead(ls, toks, prices) ==
    /\ \A i \in Headers(ls) :
           /\ \A c \in CallsAt(i) :
                  /\ calls[c].from \in (i + 1)..(i + 4)
                  /\ calls[c].tok = toks[calls[c].from]
           /\ PriceAfter(prices, i) = None => PricedAt(i) = {}
           /\ PriceAfter(prices, i) # None =>
                  /\ Cardinality(PricedAt(i)) = 1
                  /\ \A c \in PricedAt(i) :
                         /\ calls[c].from = i + Least(WithPrice(prices, i))
                         /\ calls[c].val = PriceAfter(prices, i)
    /\ DOMAIN a = {HeaderKey(ls, i) : i \in {h \in Headers(ls) : PriceAfter(prices, h) # None}}
    /\ \A k \in DOMAIN a :
           a[k] = Least({PriceAfter(prices, i) : i \in PricedHeaders(ls, prices, k)})

\* C9 (amended): the price recorded for a label line of the explicit pass is
\* that of the first money token of the first of the 4 non-blank lines after
\* it whose first money token parses (a line whose first token does not parse
\* is passed over); without such a line the label contributes nothing; no
\* token of the 5th or a later line is tried for the label.  The result of the
\* pass holds, for each key, the least of the prices of its labels.
C9_BoundedLookahead ==
    pc = "explicit" =>
        BoundedLookahead(Lines(VisibleText), Tokens(Lines(VisibleText)),
                         Prices(Tokens(Lines(VisibleText))))

\* a label whose price comes from the 4th line after it, and a label whose
\* only price is on the 5th line after it
LookaheadEdge(ls, prices) ==
    /\ \E i \in Headers(ls) : WithPrice(prices, i) = {4}
    /\ \E i \in Headers(ls) :
           WithPrice(prices, i) = {} /\ i + 5 <= Len(ls) /\ prices[i + 5] # None

C9_Witness ==
    /\ pc = "explicit"
    /\ LookaheadEdge(Lines(VisibleText), Prices(Tokens(Lines(VisibleText))))

\* the explicit pass on the lines ls is as C9 says
FirstTokenFound(ls, toks, prices) ==
    \A i \in Headers(ls) :
        /\ \A c \in PricedAt(i) :
               /\ WithToken(toks, i) # {}
               /\ calls[c].from = i + Least(WithToken(toks, i))
        /\ WithPrice(prices, i) = {} => PricedAt(i) = {}
        /\ \A c \in CallsAt(i) : calls[c].from <= i + 4

\* C9 as stated: the price recorded for a label line is taken from the first
\* money token found in the 4 lines after it; if none of those lines holds a
\* money token that parses the label contributes nothing; no token of the 5th
\* or a later line is paired with the label.
C9_FirstTokenFound ==
    pc = "explicit" =>
        FirstTokenFound(Lines(VisibleText), Tokens(Lines(VisibleText)),
                        Prices(Tokens(Lines(VisibleText))))

----------------------------------------------------------------------------
(* normalize_section_name applied once and twice *)

\* the pieces a raw label is made of
LabelPieces == { Section \o <<" ">>, <<"S","E","C","T","I","O","N">>, <<" ">>,
                 <<"\t">>, <<"v","i","p">>, <<"3">> }

MaxPieces == 4

RawLabels == { Concat(ps) : ps \in SeqsUpTo(LabelPieces, MaxPieces) }

InitNorm ==
    /\ pc = "raw"
    /\ s_raw \in RawLabels
    /\ s_once = Idle /\ s_twice = Idle
    /\ DiffIdle /\ FetchIdle /\ MainIdle

Canonicalize ==
    /\ pc = "raw"
    /\ s_once' = normalize_section_name(s_raw)
    /\ pc' = "once"
    /\ UNCHANGED <<s_raw, s_twice, diffVars, fetchVars, mainVars>>

Recanonicalize ==
    /\ pc = "once"
    /\ s_twice' = normalize_section_name(s_once)
    /\ pc' = "twice"
    /\ UNCHANGED <<s_raw, s_once, diffVars, fetchVars, mainVars>>

NextNorm == Canonicalize \/ Recanonicalize

SpecNorm == InitNorm /\ [][NextNorm]_vars

\* C6: canonicalizing an already canonical name returns it unchanged:
\* normalize_section_name(normalize_section_name(s)) = normalize_section_name(s)
\* for every raw label s, also when the word Section comes twice at its start.
C6_Idempotent == pc = "twice" => s_twice = s_once

----------------------------------------------------------------------------
(* diff_prices *)

\* the section names of the diff, in the order sorted() gives them
SectionNames == <<"A", "B", "C", "D", "E">>

MaxSections == 4

DiffSections == {SectionNames[i] : i \in 1..MaxSections}

DiffPrices == {10000, 12000}

SectionPriceMaps == UNION {[S -> DiffPrices] : S \in SUBSET DiffSections}

\* sorted(S) for a set S of section names
RECURSIVE SortedFrom(_, _)
SortedFrom(S, i) ==
    IF i > Len(SectionNames) THEN <<>>
    ELSE (IF SectionNames[i] \in S THEN <<SectionNames[i]>> ELSE <<>>)
             \o SortedFrom(S, i + 1)

Sorted(S) == SortedFrom(S, 1)

NoDiff == [ups |-> <<>>, downs |-> <<>>, others |-> <<>>]

\* the fields of the lines diff_prices formats
Nuevo(sec, nv)    == [sec |-> sec, what |-> "nuevo", price |-> nv]
SinDisp(sec, ov)  == [sec |-> sec, what |-> "sin disponibilidad", price |-> ov]
Change(sec, ov, nv, delta) == [sec |-> sec, ov |-> ov, nv |-> nv, delta |-> delta]

\* a slip: an unchanged price counts as a rise
DiffEntryGe(acc, sec, ov, nv) ==
    IF ov = None /\ nv # None
        THEN [acc EXCEPT !.others = Append(@, Nuevo(sec, nv))]
    ELSE IF ov # None /\ nv = None
        THEN [acc EXCEPT !.others = Append(@, SinDisp(sec, ov))]
    ELSE IF ov # None /\ nv # None
        THEN IF nv >= ov
                 THEN [acc EXCEPT !.ups = Append(@, Change(sec, ov, nv, nv - ov))]
             ELSE IF nv < ov
                 THEN [acc EXCEPT !.downs = Append(@, Change(sec, ov, nv, ov - nv))]
             ELSE acc
    ELSE acc

\* a slip: the fall is computed as new - old
DiffEntrySign(acc, sec, ov, nv) ==
    IF ov = None /\ nv # None
        THEN [acc EXCEPT !.others = Append(@, Nuevo(sec, nv))]
    ELSE IF ov # None /\ nv = None
        THEN [acc EXCEPT !.others = Append(@, SinDisp(sec, ov))]
    ELSE IF ov # None /\ nv # None
        THEN IF nv > ov
                 THEN [acc EXCEPT !.ups = Append(@, Change(sec, ov, nv, nv - ov))]
             ELSE IF nv < ov
                 THEN [acc EXCEPT !.downs = Append(@, Change(sec, ov, nv, nv - ov))]
             ELSE acc
    ELSE acc

\* the body of the loop of diff_prices
DiffEntry(acc, sec, ov, nv) ==
    IF ov = None /\ nv # None
        THEN [acc EXCEPT !.others = Append(@, Nuevo(sec, nv))]
    ELSE IF ov # None /\ nv = None
        THEN [acc EXCEPT !.others = Append(@, SinDisp(sec, ov))]
    ELSE IF ov # None /\ nv # None
        THEN IF nv > ov
                 THEN [acc EXCEPT !.ups = Append(@, Change(sec, ov, nv, nv - ov))]
             ELSE IF nv < ov
                 THEN [acc EXCEPT !.downs = Append(@, Change(sec, ov, nv, ov - nv))]
             ELSE acc
    ELSE acc

diff_prices(o, n) ==
    LET all_sections == Sorted(DOMAIN o \cup DOMAIN n)
        RECURSIVE Loop(_, _)
        Loop(i, acc) ==
            IF i > Len(all_sections) THEN acc
            ELSE Loop(i + 1, DiffEntry(acc, all_sections[i],
                                       Get(o, all_sections[i]),
                                       Get(n, all_sections[i])))
    IN Loop(1, NoDiff)

InitDiff ==
    /\ pc = "diff"
    /\ old \in SectionPriceMaps
    /\ new \in SectionPriceMaps
    /\ fwd = Idle /\ bwd = Idle
    /\ NormIdle /\ FetchIdle /\ MainIdle

DiffForward ==
    /\ pc = "diff"
    /\ fwd' = diff_prices(old, new)
    /\ pc' = "forward"
    /\ UNCHANGED <<old, new, bwd, normVars, fetchVars, mainVars>>

DiffBackward ==
    /\ pc = "forward"
    /\ bwd' = diff_prices(new, old)
    /\ pc' = "both"
    /\ UNCHANGED <<old, new, fwd, normVars, fetchVars, mainVars>>

NextDiff == DiffForward \/ DiffBackward

SpecDiff == InitDiff /\ [][NextDiff]_vars

\* how many entries of the list es are about the section k
Hits(es, k) == Cardinality({i \in DOMAIN es : es[i].sec = k})

\* how many entries of others say `what` about the section k
HitsOf(es, k, what) ==
    Cardinality({i \in DOMAIN es : es[i].sec = k /\ es[i].what = what})

\* C1: every key of old or new is in exactly one of increased, decreased,
\* appeared, disappeared, or is unchanged (in both with equal prices) and in
\* none; no key is left out and none is reported twice; a name that is a key
\* of neither map is reported nowhere.
C1_DiffComplete ==
    pc \in {"forward", "both"} =>
        \A k \in Range(SectionNames) :
            LET inc == Hits(fwd.ups, k)
                dec == Hits(fwd.downs, k)
                app == HitsOf(fwd.others, k, "nuevo")
                dis == HitsOf(fwd.others, k, "sin disponibilidad")
                ov  == Get(old, k)
                nv  == Get(new, k)
            IN /\ Hits(fwd.others, k) = app + dis
               /\ <<inc, dec, app, dis>> =
                      IF ov = None /\ nv = None THEN <<0, 0, 0, 0>>
                      ELSE IF ov = None THEN <<0, 0, 1, 0>>
                      ELSE IF nv = None THEN <<0, 0, 0, 1>>
                      ELSE IF nv > ov THEN <<1, 0, 0, 0>>
                      ELSE IF nv < ov THEN <<0, 1, 0, 0>>
                      ELSE <<0, 0, 0, 0>>

C1_Witness ==
    /\ pc = "forward"
    /\ fwd.ups # <<>> /\ fwd.others # <<>>
    /\ \E k \in DOMAIN old \cap DOMAIN new : old[k] = new[k]

\* the entry of the other direction: the two prices exchanged, the same
\* section and the same magnitude
SwapChange(e) == [sec |-> e.sec, ov |-> e.nv, nv |-> e.ov, delta |-> e.delta]

SwapOther(e) ==
    [sec |-> e.sec, price |-> e.price,
     what |-> IF e.what = "nuevo" THEN "sin disponibilidad" ELSE "nuevo"]

\* C2: diff_prices(new, old) is diff_prices(old, new) with increased and
\* decreased exchanged and appeared and disappeared exchanged, every entry
\* keeping its key and its magnitude.
C2_DiffSymmetric ==
    pc = "both" =>
        /\ bwd.ups = [i \in DOMAIN fwd.downs |-> SwapChange(fwd.downs[i])]
        /\ bwd.downs = [i \in DOMAIN fwd.ups |-> SwapChange(fwd.ups[i])]
        /\ bwd.others = [i \in DOMAIN fwd.others |-> SwapOther(fwd.others[i])]

C2_Witness ==
    /\ pc = "both"
    /\ fwd.ups # <<>> /\ fwd.downs # <<>>
    /\ \E i, j \in DOMAIN fwd.others : fwd.others[i].what # fwd.others[j].what

----------------------------------------------------------------------------
(* main: one observation cycle after the other *)

Urls == {"u1", "u2"}

MaxUrls == 2

\* what urls.txt may hold: any list of urls, a url more than once, or none
UrlLists == SeqsUpTo(Urls, MaxUrls)

\* what fetch_sections_prices may return for a page
ObservedSections == {"A", "B"}

Observations == UNION {[S -> DiffPrices] : S \in SUBSET ObservedSections}

NoFile == [exists |-> FALSE, data |-> EmptyDict]

\* load_state(): the content of prices.json, {} when there is no file
load_state == IF prices_json.exists THEN prices_json.data ELSE EmptyDict

\* a slip: the state to save starts empty
FreshState(prev) == EmptyDict

\* new_state = dict(prev_state)
CopyState(prev) == prev

\* a slip: the prior entry is read after new_state[url] is written
OldAfterWrite(prev, written, url) ==
    IF url \in DOMAIN written THEN written[url] ELSE EmptyDict

\* old_sections = prev_state.get(url, {})
OldSections(prev, written, url) ==
    IF url \in DOMAIN prev THEN prev[url] ELSE EmptyDict

\* a slip: the arguments of diff_prices exchanged
MainDiffSwapped(old_s, secs) == diff_prices(secs, old_s)

\* ups, downs, others = diff_prices(old_sections, sections)
MainDiff(old_s, secs) == diff_prices(old_s, secs)

\* the fields of one report: the url of its header, the three lists, whether
\* it says "Sin cambios", and the prices of "Precios actuales"
Report(url, d, secs) ==
    [url |-> url, ups |-> d.ups, downs |-> d.downs, others |-> d.others,
     unchanged |-> (d.ups = <<>> /\ d.downs = <<>> /\ d.others = <<>>),
     snapshot |-> secs]

InitMain ==
    /\ pc = "start"
    /\ prices_json = NoFile
    /\ urls = <<>>
    /\ prev_state = EmptyDict /\ new_state = EmptyDict
    /\ done = 0 /\ daily_reports = <<>>
    /\ old_sections = EmptyDict /\ sections = EmptyDict
    /\ NormIdle /\ DiffIdle /\ FetchIdle

\* a run of the script starts: urls.txt is read, the run ends there when it
\* is empty, else the state is loaded
Start ==
    /\ pc = "start"
    /\ \E us \in UrlLists :
           /\ urls' = us
           /\ IF us = <<>>
                  THEN pc' = "exit" /\ prev_state' = EmptyDict /\ new_state' = EmptyDict
                  ELSE /\ pc' = "loop"
                       /\ prev_state' = load_state
                       /\ new_state' = CopyState(load_state)
    /\ done' = 0 /\ daily_reports' = <<>>
    /\ old_sections' = EmptyDict /\ sections' = EmptyDict
    /\ UNCHANGED <<prices_json, normVars, diffVars, fetchVars>>

\* one turn of the loop over the urls
ProcessUrl ==
    /\ pc = "loop" /\ done < Len(urls)
    /\ \E secs \in Observations :
           LET url == urls[done + 1]
               written == Put(new_state, url, secs)
               old_s == OldSections(prev_state, written, url)
           IN /\ sections' = secs
              /\ old_sections' = old_s
              /\ new_state' = written
              /\ daily_reports' = Append(daily_reports, Report(url, MainDiff(old_s, secs), secs))
    /\ done' = done + 1
    /\ UNCHANGED <<pc, urls, prices_json, prev_state, normVars, diffVars, fetchVars>>

\* fetch_sections_prices raises (the page does not load): the run ends
\* without saving
FetchRaises ==
    /\ pc = "loop" /\ done < Len(urls)
    /\ pc' = "crashed"
    /\ UNCHANGED <<mainVars, normVars, diffVars, fetchVars>>

\* save_state(new_state) and the report, after the loop
SaveState ==
    /\ pc = "loop" /\ done = Len(urls)
    /\ prices_json' = [exists |-> TRUE, data |-> new_state]
    /\ pc' = "done"
    /\ UNCHANGED <<urls, prev_state, new_state, done, daily_reports, old_sections,
                   sections, normVars, diffVars, fetchVars>>

\* the run is over and its memory gone; the next run is a new process
Exit ==
    /\ pc \in {"done", "exit", "crashed"}
    /\ pc' = "start"
    /\ urls' = <<>>
    /\ prev_state' = EmptyDict /\ new_state' = EmptyDict
    /\ done' = 0 /\ daily_reports' = <<>>
    /\ old_sections' = EmptyDict /\ sections' = EmptyDict
    /\ UNCHANGED <<prices_json, normVars, diffVars, fetchVars>>

NextMain == Start \/ ProcessUrl \/ FetchRaises \/ SaveState \/ Exit

SpecMain == InitMain /\ [][NextMain]_vars

\* the turns of the loop that processed the url u
TurnsOf(u) == {n \in 1..done : urls[n] = u}

\* the last of a non-empty set of turns
LastOf(S) == CHOOSE n \in S : \A m \in S : m <= n

\* C7: the diff of every processed target is computed against the entry the
\* store held for it before this cycle wrote anything (also when the target is
\* listed twice), and after the cycle the stored entry of a processed target
\* is exactly its new observation, with no key of the prior entry left over.
C7_ReadBeforeOverwrite ==
    /\ (pc = "loop" /\ done > 0) =>
           /\ old_sections = (IF urls[done] \in DOMAIN load_state
                                  THEN load_state[urls[done]] ELSE EmptyDict)
           /\ daily_reports[done] =
                  Report(urls[done], diff_prices(old_sections, sections), sections)
    /\ pc = "done" =>
           /\ prices_json.exists
           /\ \A n \in 1..done :
                  prices_json.data[urls[n]] = daily_reports[LastOf(TurnsOf(urls[n]))].snapshot

\* a target listed twice whose prior entry is neither observation of it, and
\* a key of the prior entry that the new observation lacks
C7_Witness ==
    /\ pc = "done" /\ done = 2 /\ urls[1] = urls[2]
    /\ urls[1] \in DOMAIN prev_state
    /\ prev_state[urls[1]] # daily_reports[1].snapshot
    /\ daily_reports[1].snapshot # daily_reports[2].snapshot
    /\ \E k \in DOMAIN prev_state[urls[1]] : k \notin DOMAIN prices_json.data[urls[1]]

\* the entries diff_prices gives for sections that all are new
AllAppeared(secs) ==
    [i \in 1..Len(Sorted(DOMAIN secs)) |->
        Nuevo(Sorted(DOMAIN secs)[i], secs[Sorted(DOMAIN secs)[i]])]

\* C8: a target without an entry in the store is processed like any other:
\* its diff is taken against the empty map, every key of the observation is
\* reported as appeared with its price, and nothing is reported as increased,
\* decreased or disappeared.
C8_FirstObservation ==
    (pc = "loop" /\ done > 0 /\ urls[done] \notin DOMAIN load_state) =>
        /\ old_sections = EmptyDict
        /\ daily_reports[done].ups = <<>>
        /\ daily_reports[done].downs = <<>>
        /\ daily_reports[done].others = AllAppeared(sections)

\* the first observation of a target, with two sections, beside a target the
\* store knows
C8_Witness ==
    /\ pc = "loop" /\ done > 0
    /\ prices_json.exists /\ urls[done] \notin DOMAIN prices_json.data
    /\ Cardinality(DOMAIN sections) = 2
    /\ Len(daily_reports[done].others) = 2

\* C10: a cycle changes the entries of the targets of its list only: a turn of
\* the loop writes the entry of its url and no other, saving leaves the entry
\* of every target that is in the store and not in the list as it was, and
\* the keys of the store become the prior keys and the processed targets.
C10_Frame ==
    [][ /\ (pc = "loop" /\ pc' = "loop") =>
               \A u \in DOMAIN new_state' \cup DOMAIN new_state :
                   u # urls[done + 1] =>
                       u \in DOMAIN new_state /\ u \in DOMAIN new_state'
                           /\ new_state'[u] = new_state[u]
        /\ (pc = "loop" /\ pc' = "done") =>
               /\ \A u \in DOMAIN load_state \ Range(urls) :
                      u \in DOMAIN prices_json'.data /\ prices_json'.data[u] = load_state[u]
               /\ DOMAIN prices_json'.data = DOMAIN load_state \cup Range(urls)
      ]_vars

\* a cycle that is over, whose list left out a target the store had an entry
\* with prices for
C10_Witness ==
    /\ pc = "done" /\ done > 0
    /\ \E u \in DOMAIN prev_state :
           /\ u \notin Range(urls)
           /\ prev_state[u] # EmptyDict
           /\ prices_json.data[u] = prev_state[u]

=============================================================================
